---- MODULE Spec2Model ----
\* Model of image_batch_compressor_pro_plus.py: the Tk main thread (add_files,
\* clear_files, start_compression, poll_queue), the worker_submit thread of each
\* batch with its ThreadPoolExecutor, the per-file pipeline
\* process_single_file_task, the shared queue msg_q and the output directory.
EXTENDS Integers, Sequences, FiniteSets, Bags, TLC

\* ---------------------------------------------------------------- bounds
\* GUI events (add_files, clear_files, start_compression) handled in one run.
MaxClicks == 3
\* Tasks submitted to executors over all batches, once a second batch starts.
MaxTasks == 2

\* ------------------------------------------------------- program constants
WORKER_THREADS == 4
THUMBNAIL_SIZE == <<64, 48>>
CONVERT_OPTIONS == {"Same as input", "jpg", "png", "webp", "jpeg", "bmp"}
\* ttk.Progressbar's maximum before start_compression first sets it.
ProgressDefaultMaximum == 100

\* ------------------------------------------------------------ Python values
\* An optional value: None is the empty tuple, a present value v is <<v>>.
None == <<>>
Some(v) == <<v>>
IsSome(o) == Len(o) = 1
Val(o) == o[1]

\* A path is its directory, the stem of its basename and its extension:
\* os.path.join, os.path.basename and os.path.splitext project or build these.
Path(dir, stem, ext) == [dir |-> dir, stem |-> stem, ext |-> ext]

\* str.lower() on the extensions and format tags that occur.
Lower(s) ==
  CASE s = ".JPG" -> ".jpg"
    [] s = ".PNG" -> ".png"
    [] s = ".Jpeg" -> ".jpeg"
    [] OTHER -> s

\* str.upper() on the format tags of CONVERT_OPTIONS.
Upper(s) ==
  CASE s = "jpg" -> "JPG"
    [] s = "jpeg" -> "JPEG"
    [] s = "png" -> "PNG"
    [] s = "webp" -> "WEBP"
    [] s = "bmp" -> "BMP"
    [] OTHER -> s

\* The texts an Entry widget may hold in this model.
EntryTexts == {"", " ", "0", "1", "50", "70", "100", "101", "-5", "abc", "7.5", " 100 "}

\* str.strip() on the entry texts.
Strip(s) ==
  CASE s = " " -> ""
    [] s = " 100 " -> "100"
    [] OTHER -> s

\* int(s): [ok |-> FALSE] stands for ValueError. int() itself ignores
\* surrounding blanks; the empty and the blank string are errors.
PyInt(s) ==
  CASE Strip(s) = "0" -> [ok |-> TRUE, val |-> 0]
    [] Strip(s) = "1" -> [ok |-> TRUE, val |-> 1]
    [] Strip(s) = "50" -> [ok |-> TRUE, val |-> 50]
    [] Strip(s) = "70" -> [ok |-> TRUE, val |-> 70]
    [] Strip(s) = "100" -> [ok |-> TRUE, val |-> 100]
    [] Strip(s) = "101" -> [ok |-> TRUE, val |-> 101]
    [] Strip(s) = "-5" -> [ok |-> TRUE, val |-> 0 - 5]
    [] OTHER -> [ok |-> FALSE, val |-> 0]

\* human_kb: "-" (None here) for a size of 0, else the size in hundredths of a
\* KB, rounded as the :.2f format rounds.
human_kb(size_bytes) ==
  IF size_bytes = 0 THEN None ELSE Some((size_bytes * 100 + 512) \div 1024)

\* ------------------------------------------------------- ensure_unique_path
\* The candidate f"{base}_{counter}{ext}".
Candidate(path, counter) ==
  Path(path.dir, path.stem \o "_" \o ToString(counter), path.ext)

RECURSIVE ProbeFrom(_, _, _, _)
\* The while loop: candidate is probed; counter is the next suffix to try.
ProbeFrom(existing, path, candidate, counter) ==
  IF candidate \in existing
    THEN ProbeFrom(existing, path, Candidate(path, counter), counter + 1)
    ELSE candidate

\* Mutant of ensure_unique_path: the path is returned without a probe.
ensure_unique_path_noprobe(existing, path) == path

\* Mutant of ensure_unique_path: the counter starts at 2, so the suffix _1 is
\* never tried.
ensure_unique_path_from2(existing, path) == ProbeFrom(existing, path, path, 2)

\* ensure_unique_path(path) against the set of paths that exist. The output
\* directory only gains files, so the result of the probes equals the result
\* of probing the directory as it is at the last probe.
ensure_unique_path(existing, path) == ProbeFrom(existing, path, path, 1)

\* ------------------------------------------- process_single_file_task, pure
\* Python truthiness of an optional integer: None and 0 are false.
Truthy(o) == IsSome(o) /\ Val(o) # 0

\* The resize condition of the pipeline.
ResizeRequested(resize_flag, new_w, new_h) ==
  resize_flag # "Original" /\ (Truthy(new_w) \/ Truthy(new_h))

\* Mutant of TargetLength: the request is dropped and the source length kept.
TargetLength_Source(requested, src) == src

\* tgt_w / tgt_h: the requested length if truthy, else the source length.
TargetLength(requested, src) == IF Truthy(requested) THEN Val(requested) ELSE src

\* Image.resize raises ValueError unless both lengths are positive.
ResizeRaises(tgt_w, tgt_h) == tgt_w <= 0 \/ tgt_h <= 0

\* target_ext: forced by an explicit format, else the lowered input extension.
TargetExt(ext, out_format) ==
  IF out_format # "Same as input" THEN "." \o Lower(out_format) ELSE Lower(ext)

\* target_format: None lets PIL infer the format from the extension.
TargetFormat(out_format) ==
  IF out_format # "Same as input"
    THEN IF Lower(out_format) \in {"jpg", "jpeg"} THEN Some("JPEG")
         ELSE Some(Upper(out_format))
    ELSE None

\* Whether save_kwargs carries "quality".
QualityApplies(target_ext, target_format) ==
  \/ target_ext \in {".jpg", ".jpeg", ".webp"}
  \/ (IsSome(target_format) /\ Val(target_format) \in {"JPEG", "WEBP"})

\* save_kwargs: optimize is always set; format, quality and exif when given.
SaveKwargs(target_ext, target_format, quality, exif_bytes) ==
  [optimize |-> TRUE,
   format |-> target_format,
   quality |-> IF QualityApplies(target_ext, target_format) THEN Some(quality) ELSE None,
   exif |-> exif_bytes]

\* The guard of img.convert("RGB"): save_kwargs.get("format", "").upper() is
\* "JPEG" and the image mode is RGBA or P.
ConvertsToRgb(save_kwargs, mode) ==
  /\ IsSome(save_kwargs.format)
  /\ Upper(Val(save_kwargs.format)) \in {"JPEG"}
  /\ mode \in {"RGBA", "P"}

\* Image.save's choice of encoder: the format given, else the one registered
\* for the extension of the file name; None stands for "unknown file extension".
PilFormat(format, ext) ==
  IF IsSome(format) THEN format
  ELSE CASE ext \in {".jpg", ".jpeg"} -> Some("JPEG")
         [] ext = ".png" -> Some("PNG")
         [] ext = ".webp" -> Some("WEBP")
         [] ext = ".bmp" -> Some("BMP")
         [] OTHER -> None

\* The JPEG encoder refuses alpha and palette images ("cannot write mode").
EncoderRaises(format, mode) == format = "JPEG" /\ mode \in {"RGBA", "P"}

\* The size in bytes of an encoded image: one byte per pixel, scaled by the
\* quality where the encoder takes one (a stand-in for the encoder's output).
EncodedSize(w, h, quality) ==
  IF IsSome(quality) THEN ((w * h * Val(quality)) \div 100) + 1 ELSE (w * h) + 1

\* Image.thumbnail(THUMBNAIL_SIZE): no change when the image fits, else the
\* largest size of the same aspect ratio inside the box, at least 1 pixel.
RoundDiv(a, b) == ((2 * a) + b) \div (2 * b)
AtLeastOne(n) == IF n < 1 THEN 1 ELSE n
ThumbSize(w, h) ==
  IF THUMBNAIL_SIZE[1] >= w /\ THUMBNAIL_SIZE[2] >= h THEN <<w, h>>
  ELSE IF THUMBNAIL_SIZE[1] * h >= THUMBNAIL_SIZE[2] * w
    THEN <<AtLeastOne(RoundDiv(THUMBNAIL_SIZE[2] * w, h)), THUMBNAIL_SIZE[2]>>
    ELSE <<THUMBNAIL_SIZE[1], AtLeastOne(RoundDiv(THUMBNAIL_SIZE[1] * h, w))>>

\* -------------------------------------------------------------------- state
VARIABLES
  disk,           \* the input files that exist: path -> [size, corrupt, mode, w, h, exif]
  listing,        \* the order in which the file dialog or a drop delivers them
  quality_input,  \* text of the quality Entry
  width_input,    \* text of the width Entry
  height_input,   \* text of the height Entry
  resize_var,     \* "Original" or "Custom Size"
  format_var,     \* one of CONVERT_OPTIONS
  meta_var,       \* the Preserve Metadata checkbox
  thumb_faults,   \* the input paths whose output fails to re-open as a thumbnail
  tree,           \* Treeview rows, in order: [item, path, before, after, status, out]
  thumb_refs,     \* item -> PhotoImage
  nextItem,       \* the Treeview's item counter (item ids are never reused)
  progress,       \* [value, maximum] of the Progressbar
  size_label,     \* None for "", else Some(<<total before, total after>>)
  msg_q,          \* queue.Queue: FIFO of messages
  sent,           \* history: the bag of all messages ever put on msg_q
  batches,        \* one record per worker_submit thread, in start order
  pool,           \* pool[b][i]: the state of task i of batch b's executor
  fs,             \* the output directories: path -> the file written there
  pollTimers,     \* pending root.after(..., poll_queue) callbacks
  mainpc,         \* "idle", or "polling" inside poll_queue's loop
  obs,            \* history: per batch, what poll_queue has done with its messages
  clicks          \* GUI events handled so far

env == <<disk, listing, quality_input, width_input, height_input, resize_var,
         format_var, meta_var, thumb_faults>>
gui == <<tree, thumb_refs, nextItem, progress, size_label>>
vars == <<disk, listing, quality_input, width_input, height_input, resize_var,
          format_var, meta_var, thumb_faults, tree, thumb_refs, nextItem, progress, size_label,
          msg_q, sent, batches, pool, fs, pollTimers, mainpc, obs, clicks>>

\* A path that os.path.isfile rejects.
NotAFile == Path("in1", "missing", ".jpg")

RECURSIVE Pick(_, _, _)
\* The files of seq at the positions in S from position k on, in order.
Pick(seq, S, k) ==
  IF k > Len(seq) THEN <<>>
  ELSE IF k \in S THEN <<seq[k]>> \o Pick(seq, S, k + 1)
  ELSE Pick(seq, S, k + 1)

\* What askopenfilenames or a drop may hand to add_files.
Selections ==
  {Pick(listing, S, 1) : S \in (SUBSET (1..Len(listing))) \ {{}}} \cup {<<NotAFile>>}

\* What askdirectory may return: "" when the dialog is cancelled.
DirChoices == {"", "out"}

\* The PhotoImage add_file_row creates, and the fallback of the worker.
BlankThumb == [kind |-> "blank", size |-> THUMBNAIL_SIZE]
PlaceholderThumb == [kind |-> "placeholder", size |-> THUMBNAIL_SIZE]

\* ------------------------------------------------------------------ messages
ResultDone(b, task_id, inp_path, out_path, before_size, after_size, thumb) ==
  [control |-> None, batch |-> b, task_id |-> Some(task_id), status |-> Some("done"),
   inp_path |-> Some(inp_path), out_path |-> Some(out_path),
   before_size |-> Some(before_size), after_size |-> Some(after_size),
   thumb |-> Some(thumb), error |-> None]

\* Mutant of ResultError: the size read before the failure is reported.
ResultError_WithSize(b, task_id, inp_path, e) ==
  [control |-> None, batch |-> b, task_id |-> Some(task_id), status |-> Some("error"),
   inp_path |-> Some(inp_path), out_path |-> None,
   before_size |-> Some(0), after_size |-> None,
   thumb |-> None, error |-> Some(e)]

ResultError(b, task_id, inp_path, e) ==
  [control |-> None, batch |-> b, task_id |-> Some(task_id), status |-> Some("error"),
   inp_path |-> Some(inp_path), out_path |-> None,
   before_size |-> None, after_size |-> None,
   thumb |-> None, error |-> Some(e)]

\* {"control": "all_done"}; msg.get(...) of any other key is None. The batch
\* field of a message is history only: poll_queue never reads it.
AllDone(b) ==
  [control |-> Some("all_done"), batch |-> b, task_id |-> None, status |-> None,
   inp_path |-> None, out_path |-> None, before_size |-> None, after_size |-> None,
   thumb |-> None, error |-> None]

\* Mutant of Put: the message is put twice, as when a put in the try body is
\* followed by the put of the except clause.
PutTwice(m) ==
  /\ msg_q' = Append(Append(msg_q, m), m)
  /\ sent' = sent (+) SetToBag({m}) (+) SetToBag({m})

\* msg_q.put(m)
Put(m) ==
  /\ msg_q' = Append(msg_q, m)
  /\ sent' = sent (+) SetToBag({m})

\* --------------------------------------------------------------- GUI handlers
\* The row add_file_row inserts: before is human_kb(os.path.getsize(path)).
NewRow(item, path) ==
  [item |-> item, path |-> path, before |-> human_kb(disk[path].size),
   after |-> None, status |-> "Queued", out |-> None]

\* Whether some row of tr holds path in its hidden "path" column.
HasPath(tr, path) == \E k \in 1..Len(tr) : tr[k].path = path

\* Mutant of add_file_row: the check for a row of the same path is missing.
add_file_row_nodup(g, path) ==
  [tree |-> Append(g.tree, NewRow(g.nextItem, path)),
   thumb_refs |-> (g.nextItem :> BlankThumb) @@ g.thumb_refs,
   nextItem |-> g.nextItem + 1]

\* add_file_row on g = [tree, thumb_refs, nextItem]: a path already in the
\* tree is skipped, else a row and its placeholder PhotoImage are added.
add_file_row(g, path) ==
  IF HasPath(g.tree, path) THEN g
  ELSE [tree |-> Append(g.tree, NewRow(g.nextItem, path)),
        thumb_refs |-> (g.nextItem :> BlankThumb) @@ g.thumb_refs,
        nextItem |-> g.nextItem + 1]

RECURSIVE AddPaths(_, _)
\* The loop of add_files: every path that is a file goes to add_file_row.
AddPaths(g, paths) ==
  IF paths = <<>> THEN g
  ELSE AddPaths(IF Head(paths) \in DOMAIN disk THEN add_file_row(g, Head(paths)) ELSE g,
                Tail(paths))

add_files(paths) ==
  /\ mainpc = "idle"
  /\ clicks < MaxClicks
  /\ LET g == AddPaths([tree |-> tree, thumb_refs |-> thumb_refs, nextItem |-> nextItem],
                       paths)
     IN /\ tree' = g.tree
        /\ thumb_refs' = g.thumb_refs
        /\ nextItem' = g.nextItem
  /\ clicks' = clicks + 1
  /\ UNCHANGED <<env, progress, size_label, msg_q, sent, batches, pool, fs,
                 pollTimers, mainpc, obs>>

\* The items of the rows of tr.
Items(tr) == {tr[k].item : k \in 1..Len(tr)}

clear_files ==
  /\ mainpc = "idle"
  /\ clicks < MaxClicks
  /\ thumb_refs' = [i \in (DOMAIN thumb_refs) \ Items(tree) |-> thumb_refs[i]]
  /\ tree' = <<>>
  /\ size_label' = None
  /\ progress' = [progress EXCEPT !.value = 0]
  /\ clicks' = clicks + 1
  /\ UNCHANGED <<env, nextItem, msg_q, sent, batches, pool, fs, pollTimers, mainpc, obs>>

\* Mutant of QualityValid: the range test is missing.
QualityValid_NoRange(text) == PyInt(text).ok

\* The quality check of start_compression: int() succeeds and 1 <= q <= 100.
QualityValid(text) == PyInt(text).ok /\ 1 <= PyInt(text).val /\ PyInt(text).val <= 100

\* int(entry.get()) if entry.get().strip() else None, for one of the two entries.
ResizeEntry(text) == IF Strip(text) # "" THEN Some(PyInt(text).val) ELSE None

\* Whether reading the width and height entries raises (a non-blank text that
\* int() rejects); they are read only when the resize mode is not Original.
ResizeEntriesRaise(resize_flag, wtext, htext) ==
  /\ resize_flag # "Original"
  /\ \/ (Strip(wtext) # "" /\ ~PyInt(wtext).ok)
     \/ (Strip(htext) # "" /\ ~PyInt(htext).ok)

\* files: (idx, item, path) for every row, idx counting from 0.
FilesOf(tr) == [k \in 1..Len(tr) |-> [idx |-> k - 1, item |-> tr[k].item, path |-> tr[k].path]]

\* The state of a task that has not been submitted to the executor yet. The
\* field solo is history: whether no other task stood between its
\* ensure_unique_path and its img.save when this one ran ensure_unique_path.
PendingTask ==
  [st |-> "pending", before_size |-> None, img |-> None, exif_bytes |-> None,
   target_ext |-> None, target_format |-> None, save_path |-> None,
   save_kwargs |-> None, after_size |-> None, solo |-> TRUE]

RECURSIVE SumTasks(_, _)
\* The number of tasks of the first n batches of bs.
SumTasks(bs, n) == IF n = 0 THEN 0 ELSE Len(bs[n].files) + SumTasks(bs, n - 1)

\* All tasks handed to worker_submit threads so far.
TasksSoFar == SumTasks(batches, Len(batches))

\* Whether start_compression returns early, before it sets anything up.
StartReturnsEarly(out_dir) ==
  \/ tree = <<>>
  \/ ~QualityValid(quality_input)
  \/ ResizeEntriesRaise(resize_var, width_input, height_input)
  \/ out_dir = ""

\* The batch start_compression hands to worker_submit. The field alone is
\* history: whether every earlier batch had ended, its thread and its polling,
\* when this one started.
NewBatch(out_dir) ==
  [files |-> FilesOf(tree),
   out_dir |-> out_dir,
   quality |-> PyInt(quality_input).val,
   resize_flag |-> resize_var,
   new_w |-> IF resize_var # "Original" THEN ResizeEntry(width_input) ELSE None,
   new_h |-> IF resize_var # "Original" THEN ResizeEntry(height_input) ELSE None,
   out_format |-> format_var,
   preserve_meta |-> meta_var,
   pc |-> "submit",
   alone |-> pollTimers = 0 /\ \A b \in 1..Len(batches) : batches[b].pc = "done"]

start_compression(out_dir) ==
  /\ mainpc = "idle"
  /\ clicks < MaxClicks
  /\ clicks' = clicks + 1
  /\ IF StartReturnsEarly(out_dir)
       THEN UNCHANGED <<gui, batches, pool, pollTimers, obs>>
       ELSE /\ (batches = <<>> \/ TasksSoFar + Len(tree) <= MaxTasks)
            /\ progress' = [value |-> 0, maximum |-> Len(tree)]
            /\ tree' = [k \in 1..Len(tree) |->
                          [tree[k] EXCEPT !.after = None, !.status = "Queued"]]
            /\ batches' = Append(batches, NewBatch(out_dir))
            /\ pool' = Append(pool, [k \in 1..Len(tree) |-> PendingTask])
            /\ obs' = Append(obs, [applied |-> {}, discarded |-> {}, all_done |-> 0])
            /\ pollTimers' = pollTimers + 1
            /\ UNCHANGED <<thumb_refs, nextItem, size_label>>
  /\ UNCHANGED <<env, msg_q, sent, fs, mainpc>>

\* ------------------------------------------------- worker_submit, the executor
\* Mutant of Running: no task counts as being executed, so the executor never
\* sees its workers busy.
Running_None(b) == {}

\* The tasks of batch b a worker is executing.
Running(b) == {i \in 1..Len(pool[b]) : pool[b][i].st \in {"named", "saved"}}

\* exe.submit(process_single_file_task, ...) for the next file of the batch;
\* after the last one the thread waits on the futures.
worker_submit_submit(b) ==
  /\ batches[b].pc = "submit"
  /\ LET i == CHOOSE k \in 1..Len(pool[b]) :
                /\ pool[b][k].st = "pending"
                /\ \A j \in 1..(k - 1) : pool[b][j].st # "pending"
     IN /\ pool' = [pool EXCEPT ![b][i].st = "queued"]
        /\ batches' = [batches EXCEPT ![b].pc =
                         IF i = Len(pool[b]) THEN "wait" ELSE "submit"]
  /\ UNCHANGED <<env, gui, msg_q, sent, fs, pollTimers, mainpc, obs, clicks>>

\* Mutant of worker_submit_all_done: the thread does not wait on the futures
\* before it puts all_done.
worker_submit_no_wait(b) ==
  /\ batches[b].pc = "wait"
  /\ Put(AllDone(b))
  /\ batches' = [batches EXCEPT ![b].pc = "done"]
  /\ UNCHANGED <<env, gui, pool, fs, pollTimers, mainpc, obs, clicks>>

\* Every f.result() has returned and the executor has shut down:
\* msg_q.put({"control": "all_done"}), and the thread ends.
worker_submit_all_done(b) ==
  /\ batches[b].pc = "wait"
  /\ \A i \in 1..Len(pool[b]) : pool[b][i].st = "finished"
  /\ Put(AllDone(b))
  /\ batches' = [batches EXCEPT ![b].pc = "done"]
  /\ UNCHANGED <<env, gui, pool, fs, pollTimers, mainpc, obs, clicks>>

\* ------------------------------------------------- process_single_file_task
\* From os.path.getsize to ensure_unique_path, for task t of batch bt on
\* inp_path, against the paths that exist: the task's locals, and the message
\* of the exception raised, if any.
BeginTask(t, bt, inp_path, existing) ==
  LET file == disk[inp_path]
      resize == ResizeRequested(bt.resize_flag, bt.new_w, bt.new_h)
      tgt_w == TargetLength(bt.new_w, file.w)
      tgt_h == TargetLength(bt.new_h, file.h)
      target_ext == TargetExt(inp_path.ext, bt.out_format)
      opened == [t EXCEPT !.before_size = Some(file.size)]
  IN IF file.corrupt
       THEN [error |-> Some("cannot identify image file"), task |-> opened]
     ELSE IF resize /\ ResizeRaises(tgt_w, tgt_h)
       THEN [error |-> Some("height and width must be > 0"),
             task |-> [opened EXCEPT
                         !.img = Some([mode |-> file.mode, w |-> file.w, h |-> file.h]),
                         !.exif_bytes = IF bt.preserve_meta THEN file.exif ELSE None]]
     ELSE [error |-> None,
           task |-> [opened EXCEPT
                       !.img = Some([mode |-> file.mode,
                                     w |-> IF resize THEN tgt_w ELSE file.w,
                                     h |-> IF resize THEN tgt_h ELSE file.h]),
                       !.exif_bytes = IF bt.preserve_meta THEN file.exif ELSE None,
                       !.target_ext = Some(target_ext),
                       !.target_format = TargetFormat(bt.out_format),
                       !.save_path = Some(ensure_unique_path(existing,
                                        Path(bt.out_dir, inp_path.stem, target_ext)))]]

\* From save_kwargs to img.save, for a task that holds a save_path: the task's
\* locals, the file written (None when img.save raises) and the message of
\* the exception.
SaveTask(t, bt) ==
  LET img == Val(t.img)
      kwargs == SaveKwargs(Val(t.target_ext), t.target_format, bt.quality, t.exif_bytes)
      mode == IF ConvertsToRgb(kwargs, img.mode) THEN "RGB" ELSE img.mode
      format == PilFormat(kwargs.format, Val(t.save_path).ext)
      ready == [t EXCEPT !.save_kwargs = Some(kwargs),
                         !.img = Some([img EXCEPT !.mode = mode])]
  IN IF ~IsSome(format)
       THEN [error |-> Some("unknown file extension"), task |-> ready, written |-> None]
     ELSE IF EncoderRaises(Val(format), mode)
       THEN [error |-> Some("cannot write mode " \o mode \o " as JPEG"),
             task |-> ready, written |-> None]
     ELSE LET size == EncodedSize(img.w, img.h, kwargs.quality)
          IN [error |-> None,
              task |-> ready,
              written |-> Some([format |-> Val(format), mode |-> mode,
                                w |-> img.w, h |-> img.h, quality |-> kwargs.quality,
                                exif |-> kwargs.exif, size |-> size])]

\* The tasks, of any batch, that hold a save_path they have not written yet.
Naming ==
  {bi \in UNION {{<<b, i>> : i \in 1..Len(pool[b])} : b \in 1..Len(pool)} :
     pool[bi[1]][bi[2]].st = "named"}

\* A worker of batch b's executor takes task i, the oldest one queued, when
\* fewer than WORKER_THREADS workers are busy, and runs it up to
\* ensure_unique_path; an exception ends the task in the except clause.
task_begin(b, i) ==
  /\ pool[b][i].st = "queued"
  /\ \A j \in 1..(i - 1) : pool[b][j].st # "queued"
  /\ Cardinality(Running(b)) < WORKER_THREADS
  /\ LET f == batches[b].files[i]
         r == BeginTask(pool[b][i], batches[b], f.path, DOMAIN fs)
     IN IF IsSome(r.error)
          THEN /\ pool' = [pool EXCEPT ![b][i] = [r.task EXCEPT !.st = "finished"]]
               /\ Put(ResultError(b, f.idx, f.path, Val(r.error)))
          ELSE /\ pool' = [pool EXCEPT ![b][i] =
                             [r.task EXCEPT !.st = "named", !.solo = Naming = {}]]
               /\ UNCHANGED <<msg_q, sent>>
  /\ UNCHANGED <<env, gui, batches, fs, pollTimers, mainpc, obs, clicks>>

\* img.save(save_path, **save_kwargs) and os.path.getsize(save_path): the file
\* is created or replaced. When img.save raises, the directory is left as it
\* was and the except clause reports the task.
task_save(b, i) ==
  /\ pool[b][i].st = "named"
  /\ LET f == batches[b].files[i]
         r == SaveTask(pool[b][i], batches[b])
     IN IF IsSome(r.error)
          THEN /\ pool' = [pool EXCEPT ![b][i] = [r.task EXCEPT !.st = "finished"]]
               /\ Put(ResultError(b, f.idx, f.path, Val(r.error)))
               /\ UNCHANGED fs
          ELSE /\ fs' = (Val(r.task.save_path) :> Val(r.written)) @@ fs
               /\ pool' = [pool EXCEPT ![b][i] =
                             [r.task EXCEPT !.st = "saved",
                                            !.after_size = Some(Val(r.written).size)]]
               /\ UNCHANGED <<msg_q, sent>>
  /\ UNCHANGED <<env, gui, batches, pollTimers, mainpc, obs, clicks>>

\* Mutant of task_put: the worker counts its task on the progress bar itself.
task_put_counts(b, i) ==
  /\ pool[b][i].st = "saved"
  /\ LET f == batches[b].files[i]
         t == pool[b][i]
     IN Put(ResultDone(b, f.idx, f.path, Val(t.save_path), Val(t.before_size),
                       Val(t.after_size), PlaceholderThumb))
  /\ pool' = [pool EXCEPT ![b][i].st = "finished"]
  /\ progress' = [progress EXCEPT !.value = @ + 1]
  /\ UNCHANGED <<env, tree, thumb_refs, nextItem, size_label, batches, fs, pollTimers,
                 mainpc, obs, clicks>>

\* Mutant of task_put: a failure of the thumbnail reaches the outer except
\* clause and the task reports an error.
task_put_thumb_raises(b, i) ==
  /\ pool[b][i].st = "saved"
  /\ LET f == batches[b].files[i]
         t == pool[b][i]
         out == fs[Val(t.save_path)]
     IN IF f.path \in thumb_faults
          THEN Put(ResultError(b, f.idx, f.path, "cannot identify image file"))
          ELSE Put(ResultDone(b, f.idx, f.path, Val(t.save_path), Val(t.before_size),
                              Val(t.after_size),
                              [kind |-> "preview", size |-> ThumbSize(out.w, out.h)]))
  /\ pool' = [pool EXCEPT ![b][i].st = "finished"]
  /\ UNCHANGED <<env, gui, batches, fs, pollTimers, mainpc, obs, clicks>>

\* The thumbnail of the file now at save_path, or the placeholder when
\* re-opening or downscaling it fails, and the put of the "done" message.
task_put(b, i) ==
  /\ pool[b][i].st = "saved"
  /\ LET f == batches[b].files[i]
         t == pool[b][i]
         out == fs[Val(t.save_path)]
         thumb == IF f.path \in thumb_faults
                    THEN PlaceholderThumb
                    ELSE [kind |-> "preview", size |-> ThumbSize(out.w, out.h)]
     IN Put(ResultDone(b, f.idx, f.path, Val(t.save_path), Val(t.before_size),
                       Val(t.after_size), thumb))
  /\ pool' = [pool EXCEPT ![b][i].st = "finished"]
  /\ UNCHANGED <<env, gui, batches, fs, pollTimers, mainpc, obs, clicks>>

\* ----------------------------------------------------------------- poll_queue
\* The first row of tr whose hidden path column is path, or 0 (target_item None).
FindRow(tr, path) ==
  IF HasPath(tr, path)
    THEN CHOOSE k \in 1..Len(tr) :
           tr[k].path = path /\ \A j \in 1..(k - 1) : tr[j].path # path
    ELSE 0

\* The row of a "done" message: before, after, status and out are set.
DoneRow(row, msg) ==
  [row EXCEPT !.before = human_kb(Val(msg.before_size)),
              !.after = human_kb(Val(msg.after_size)),
              !.status = "Done",
              !.out = Some([stem |-> Val(msg.out_path).stem, ext |-> Val(msg.out_path).ext])]

\* The row of an "error" message: only the status changes.
ErrorRow(row, msg) == [row EXCEPT !.status = "Error: " \o Val(msg.error)]

\* The timer fires: poll_queue starts on the main thread.
poll_queue_begin ==
  /\ mainpc = "idle"
  /\ pollTimers > 0
  /\ pollTimers' = pollTimers - 1
  /\ mainpc' = "polling"
  /\ UNCHANGED <<env, gui, msg_q, sent, batches, pool, fs, obs, clicks>>

\* One turn of the while loop: msg_q.get_nowait() returned msg.
poll_queue_msg ==
  /\ mainpc = "polling"
  /\ msg_q # <<>>
  /\ msg_q' = Tail(msg_q)
  /\ LET msg == Head(msg_q)
         b == msg.batch
         k == IF IsSome(msg.inp_path) THEN FindRow(tree, Val(msg.inp_path)) ELSE 0
     IN IF msg.control = Some("all_done")
          THEN /\ progress' = [progress EXCEPT !.value = progress.maximum]
               /\ obs' = [obs EXCEPT ![b].all_done = @ + 1]
               /\ UNCHANGED <<tree, thumb_refs>>
        ELSE IF k = 0
          THEN /\ obs' = [obs EXCEPT ![b].discarded = @ \cup {Val(msg.task_id)}]
               /\ UNCHANGED <<tree, thumb_refs, progress>>
        ELSE IF msg.status = Some("done")
          THEN /\ thumb_refs' = [thumb_refs EXCEPT ![tree[k].item] = Val(msg.thumb)]
               /\ tree' = [tree EXCEPT ![k] = DoneRow(tree[k], msg)]
               /\ progress' = [progress EXCEPT !.value = @ + 1]
               /\ obs' = [obs EXCEPT ![b].applied = @ \cup {Val(msg.task_id)}]
        ELSE /\ tree' = [tree EXCEPT ![k] = ErrorRow(tree[k], msg)]
             /\ progress' = [progress EXCEPT !.value = @ + 1]
             /\ obs' = [obs EXCEPT ![b].applied = @ \cup {Val(msg.task_id)}]
             /\ UNCHANGED thumb_refs
  /\ UNCHANGED <<env, nextItem, size_label, sent, batches, pool, fs, pollTimers,
                 mainpc, clicks>>

RECURSIVE SumColumn(_, _, _)
\* The sum over the first n rows of the column col, skipping the rows whose
\* text does not parse as a number ("-").
SumColumn(tr, col, n) ==
  IF n = 0 THEN 0
  ELSE (IF IsSome(tr[n][col]) THEN Val(tr[n][col]) ELSE 0) + SumColumn(tr, col, n - 1)

\* queue.Empty ends the loop: poll_queue reschedules itself while the progress
\* value is below the maximum, else it writes the totals and stops.
poll_queue_end ==
  /\ mainpc = "polling"
  /\ msg_q = <<>>
  /\ mainpc' = "idle"
  /\ IF progress.value < progress.maximum
       THEN /\ pollTimers' = pollTimers + 1
            /\ UNCHANGED size_label
       ELSE /\ size_label' = Some(<<SumColumn(tree, "before", Len(tree)),
                                    SumColumn(tree, "after", Len(tree))>>)
            /\ UNCHANGED pollTimers
  /\ UNCHANGED <<env, tree, thumb_refs, nextItem, progress, msg_q, sent, batches,
                 pool, fs, obs, clicks>>

\* ------------------------------------------------------------- specification
\* An input file.
File(size, corrupt, mode, w, h, exif) ==
  [size |-> size, corrupt |-> corrupt, mode |-> mode, w |-> w, h |-> h, exif |-> exif]

Photo1 == Path("in1", "photo", ".jpg")
Photo2 == Path("in2", "photo", ".jpg")
Bad == Path("in1", "bad", ".png")

\* Two photos of the same name in two folders, and a file that does not decode.
MainDisk ==
  (Photo1 :> File(2048, FALSE, "RGB", 200, 300, Some("exif")))
  @@ (Bad :> File(10, TRUE, "RGB", 0, 0, None))
  @@ (Photo2 :> File(4096, FALSE, "RGB", 100, 50, None))

\* A file left in the output directory by an earlier run.
OldFile == [format |-> "JPEG", mode |-> "RGB", w |-> 10, h |-> 10,
            quality |-> Some(70), exif |-> None, size |-> 71]

\* The file list as built: no row, the item counter at its start.
EmptyList == [tree |-> <<>>, thumb_refs |-> <<>>, nextItem |-> 1]

\* The window as built but for the file list: no batch, the default progress
\* bar, an empty queue.
NoBatch ==
  /\ progress = [value |-> 0, maximum |-> ProgressDefaultMaximum]
  /\ size_label = None
  /\ msg_q = <<>>
  /\ sent = EmptyBag
  /\ batches = <<>>
  /\ pool = <<>>
  /\ pollTimers = 0
  /\ mainpc = "idle"
  /\ obs = <<>>

Init ==
  /\ disk = MainDisk
  /\ listing = <<Photo1, Bad, Photo2>>
  /\ quality_input = "70"
  /\ width_input = ""
  /\ height_input = ""
  /\ resize_var = "Original"
  /\ format_var = "Same as input"
  /\ meta_var = TRUE
  /\ thumb_faults = {Photo2}
  /\ fs = <<>>
  /\ tree = EmptyList.tree
  /\ thumb_refs = EmptyList.thumb_refs
  /\ nextItem = EmptyList.nextItem
  /\ NoBatch
  /\ clicks = 0

Batches == 1..Len(batches)
Tasks(b) == 1..Len(pool[b])

Next ==
  \/ \E paths \in Selections : add_files(paths)
  \/ clear_files
  \/ \E out_dir \in DirChoices : start_compression(out_dir)
  \/ \E b \in Batches : worker_submit_submit(b)
  \/ \E b \in Batches : \E i \in Tasks(b) : task_begin(b, i)
  \/ \E b \in Batches : \E i \in Tasks(b) : task_save(b, i)
  \/ \E b \in Batches : \E i \in Tasks(b) : task_put(b, i)
  \/ \E b \in Batches : worker_submit_all_done(b)
  \/ poll_queue_begin
  \/ poll_queue_msg
  \/ poll_queue_end

Spec == Init /\ [][Next]_vars

\* The scheduling the runtime gives: every worker and submitter thread that
\* can step does step, and the Tk main loop runs a due timer and a running
\* handler. Nothing obliges the user to click.
Worker ==
  \/ \E b \in Batches : worker_submit_submit(b)
  \/ \E b \in Batches : \E i \in Tasks(b) : task_begin(b, i)
  \/ \E b \in Batches : \E i \in Tasks(b) : task_save(b, i)
  \/ \E b \in Batches : \E i \in Tasks(b) : task_put(b, i)
  \/ \E b \in Batches : worker_submit_all_done(b)

Poll == poll_queue_begin \/ poll_queue_msg \/ poll_queue_end

FairSpec == Spec /\ WF_vars(Worker) /\ WF_vars(Poll)

\* ------------------------------------------- the options, one file at a time
Pic(ext) == Path("in1", "pic", ext)

\* The extensions and colour modes of the one input file.
PicExts == {".jpg", ".JPG", ".jpeg", ".png", ".webp", ".bmp", ".dat"}
PicModes == {"RGB", "RGBA", "P", "L"}

\* The files an earlier run may have left in the output directory.
OldPaths ==
  {Path("out", "pic", ".jpg"), Path("out", "pic_1", ".jpg"), Path("out", "pic_2", ".jpg"),
   Path("out", "pic_3", ".jpg"), Path("out", "pic_1_1", ".jpg"), Path("out", "pic", ".png")}

\* One input file, already listed by add_files, and one GUI event left; the
\* option widgets, the file's extension and colour mode, and the content of
\* the output directory range over their values, one group at a time with the
\* others at their defaults.
OptInit ==
  /\ NoBatch
  /\ clicks = MaxClicks - 1
  /\ thumb_faults = {}
  /\ \E ext \in PicExts, mode \in PicModes :
       /\ disk = (Pic(ext) :> File(2048, FALSE, mode, 200, 300, Some("exif")))
       /\ listing = <<Pic(ext)>>
       /\ \/ /\ ext = ".jpg" /\ mode = "RGB"
             /\ quality_input \in EntryTexts
             /\ width_input = "" /\ height_input = "" /\ resize_var = "Original"
             /\ format_var = "Same as input" /\ meta_var = TRUE
             /\ fs = <<>>
          \/ /\ ext = ".jpg" /\ mode = "RGB"
             /\ quality_input = "70"
             /\ width_input \in EntryTexts /\ height_input \in EntryTexts
             /\ resize_var \in {"Original", "Custom Size"}
             /\ format_var = "Same as input" /\ meta_var = TRUE
             /\ fs = <<>>
          \/ /\ quality_input = "70"
             /\ width_input = "" /\ height_input = "" /\ resize_var = "Original"
             /\ format_var \in CONVERT_OPTIONS /\ meta_var \in BOOLEAN
             /\ fs = <<>>
          \/ /\ ext = ".jpg" /\ mode = "RGB"
             /\ quality_input = "70"
             /\ width_input = "" /\ height_input = "" /\ resize_var = "Original"
             /\ format_var = "Same as input" /\ meta_var = TRUE
             /\ \E old \in SUBSET OldPaths : fs = [p \in old |-> OldFile]
  /\ LET g == AddPaths(EmptyList, listing)
     IN tree = g.tree /\ thumb_refs = g.thumb_refs /\ nextItem = g.nextItem

OptSpec == OptInit /\ [][Next]_vars

\* ------------------------------------------- one batch larger than the pool
\* One file more than the executor has workers.
PoolFiles ==
  <<Path("in1", "a", ".png"), Path("in1", "b", ".png"), Path("in1", "c", ".png"),
    Path("in1", "d", ".png"), Path("in1", "e", ".png")>>

\* The files are listed and one GUI event is left; the options are the
\* defaults of the window.
PoolInit ==
  /\ NoBatch
  /\ clicks = MaxClicks - 1
  /\ thumb_faults = {}
  /\ disk = [p \in {PoolFiles[k] : k \in 1..Len(PoolFiles)} |->
               File(1024, FALSE, "RGB", 10, 10, None)]
  /\ listing = PoolFiles
  /\ quality_input = "70"
  /\ width_input = "" /\ height_input = "" /\ resize_var = "Original"
  /\ format_var = "Same as input" /\ meta_var = TRUE
  /\ fs = <<>>
  /\ LET g == AddPaths(EmptyList, listing)
     IN tree = g.tree /\ thumb_refs = g.thumb_refs /\ nextItem = g.nextItem

PoolSpec == PoolInit /\ [][Next]_vars

\* -------------------------------------------------------------------- claims
\* The task identifiers of batch b.
TaskIds(b) == {batches[b].files[i].idx : i \in Tasks(b)}

\* The result messages task_id of batch b has put on msg_q so far.
ResultsOf(b, task_id) ==
  {m \in BagToSet(sent) : m.control = None /\ m.batch = b /\ m.task_id = Some(task_id)}

\* Nothing of batch b is left to run: its worker_submit thread has ended, no
\* poll_queue timer is pending and poll_queue is not running.
AtRest(b) == batches[b].pc = "done" /\ pollTimers = 0 /\ mainpc = "idle"

\* No two batches were ever in flight together.
OneAtATime == \A b \in Batches : batches[b].alone

\* C1: under fair scheduling of the workers, the submitter and the poll_queue
\* timer, poll_queue consumes the all_done message of every batch, exactly
\* once: no batch comes to rest (nothing of it left to run) with its all_done
\* message not consumed, and none is consumed twice.
C1_BatchCompleteObservedOnce ==
  \A b \in Batches :
    /\ AtRest(b) => obs[b].all_done = 1
    /\ obs[b].all_done <= 1

\* The same as a temporal formula, for FairSpec: every batch that is started
\* leads to its all_done message being consumed.
C1_EventuallyObserved ==
  \A b \in 1..MaxClicks :
    (Len(batches) >= b) ~> (Len(obs) >= b /\ obs[b].all_done = 1)

\* C2: a task that has ended, on the success path or on a failure path, has
\* put exactly one result message with its own task_id on msg_q, a task that
\* has not ended none, and a task that has ended stays ended (no retry); so a
\* batch whose N tasks have ended has put N results with distinct task ids.
C2_OneResultPerTask ==
  \A b \in Batches : \A i \in Tasks(b) :
    LET rs == ResultsOf(b, batches[b].files[i].idx)
    IN IF pool[b][i].st = "finished"
         THEN /\ Cardinality(rs) = 1
              /\ \A m \in rs : CopiesIn(m, sent) = 1 /\ m.inp_path = Some(batches[b].files[i].path)
         ELSE rs = {}

\* C2 witness: a batch of three has ended with results from the success path
\* and from a failure path.
C2_Witness ==
  \E b \in Batches :
    /\ Len(pool[b]) = 3
    /\ \A i \in Tasks(b) : pool[b][i].st = "finished"
    /\ \E m \in BagToSet(sent) : m.batch = b /\ m.status = Some("done")
    /\ \E m \in BagToSet(sent) : m.batch = b /\ m.status = Some("error")

\* C3: whenever a task writes its output with img.save, the path it writes
\* did not exist at that moment.
C3_NeverOverwrites ==
  [][\A b \in Batches : \A i \in Tasks(b) :
       (pool[b][i].st = "named" /\ pool'[b][i].st = "saved")
         => Val(pool[b][i].save_path) \notin DOMAIN fs]_vars

\* A failing task yields one error result that names its own input and carries
\* a message, and every task whose own file decodes yields a done result.
C4_Isolation ==
  \A b \in Batches : \A i \in Tasks(b) :
    pool[b][i].st = "finished" =>
      \A m \in ResultsOf(b, batches[b].files[i].idx) :
        /\ m.inp_path = Some(batches[b].files[i].path)
        /\ (m.status = Some("error")) = disk[batches[b].files[i].path].corrupt
        /\ (m.status = Some("done")) = ~disk[batches[b].files[i].path].corrupt
        /\ (m.status = Some("error") => IsSome(m.error) /\ Val(m.error) # "")

\* A batch of 3 inputs of which only the second does not decode.
SecondOfThreeCorrupt(b) ==
  /\ Len(batches[b].files) = 3
  /\ \A i \in 1..3 : disk[batches[b].files[i].path].corrupt = (i = 2)

\* C4: a failure is isolated to its task (C4_Isolation), and once a batch of 3
\* inputs whose second file cannot be decoded has run to its end, it has
\* yielded 2 done results and 1 error result and its batch-complete event has
\* fired after all three.
C4_FailureIsolatedBatchCompletes ==
  /\ C4_Isolation
  /\ \A b \in Batches :
       (SecondOfThreeCorrupt(b) /\ OneAtATime /\ AtRest(b)) =>
         /\ \A i \in {1, 3} : \E m \in ResultsOf(b, i - 1) : m.status = Some("done")
         /\ \E m \in ResultsOf(b, 1) : m.status = Some("error")
         /\ obs[b].applied \cup obs[b].discarded = TaskIds(b)
         /\ obs[b].all_done = 1

\* C5: the progress value never exceeds the progress maximum, and no step of
\* poll_queue lowers it, even when batches never overlap.
C5_CompletedWithinSubmitted ==
  [][OneAtATime' =>
       /\ progress'.value <= progress'.maximum
       /\ (mainpc = "polling" => progress'.value >= progress.value)]_vars

\* C6: poll_queue handles an all_done message only when every task of the
\* current (latest) batch has had its result taken from the queue, even when
\* batches never overlap.
C6_CompleteAfterAllResults ==
  [][(OneAtATime /\ \E b \in Batches : obs'[b].all_done > obs[b].all_done) =>
       LET cur == Len(batches)
       IN obs[cur].applied \cup obs[cur].discarded = TaskIds(cur)]_vars

\* The output path a task asks ensure_unique_path for.
DesiredPath(b, i) ==
  Path(batches[b].out_dir, batches[b].files[i].path.stem,
       TargetExt(batches[b].files[i].path.ext, batches[b].out_format))

\* C7: when a task resolves its output path, ensure_unique_path returns the
\* desired path unchanged if it does not exist, else base_k+ext for the
\* smallest k >= 1 for which that does not exist; what it returns does not
\* exist at that moment.
C7_UniquePathLowestFree ==
  [][\A b \in Batches : \A i \in Tasks(b) :
       (pool[b][i].st = "queued" /\ pool'[b][i].st = "named") =>
         LET want == DesiredPath(b, i)
             got == Val(pool'[b][i].save_path)
         IN /\ got \notin DOMAIN fs
            /\ want \notin DOMAIN fs => got = want
            /\ want \in DOMAIN fs =>
                 \E k \in 1..(Cardinality(DOMAIN fs) + 1) :
                   /\ got = Candidate(want, k)
                   /\ \A j \in 1..(k - 1) : Candidate(want, j) \in DOMAIN fs]_vars

\* C7 witness: the desired path and its _1 variant exist and the task got _2.
C7_Witness ==
  \E b \in Batches : \E i \in Tasks(b) :
    /\ pool[b][i].st = "named"
    /\ {DesiredPath(b, i), Candidate(DesiredPath(b, i), 1)} \subseteq DOMAIN fs
    /\ pool[b][i].save_path = Some(Candidate(DesiredPath(b, i), 2))

\* The entry texts that denote an integer from 1 to 100.
QualityTextsInRange == {"1", "50", "70", "100", " 100 "}

\* C8: every batch handed to the pool, and every task's save_kwargs, carries an
\* integer quality from 1 to 100, and when the entered quality is out of range
\* or no integer nothing is submitted.
C8_QualityInRange ==
  /\ \A b \in Batches :
       /\ batches[b].quality \in 1..100
       /\ \A i \in Tasks(b) :
            (IsSome(pool[b][i].save_kwargs) /\ IsSome(Val(pool[b][i].save_kwargs).quality))
              => Val(Val(pool[b][i].save_kwargs).quality) \in 1..100
  /\ quality_input \notin QualityTextsInRange => (batches = <<>> /\ pool = <<>>)

\* C8 witness: a task was submitted to the pool with the largest quality.
C8_Witness ==
  \E b \in Batches : \E i \in Tasks(b) :
    /\ quality_input = "100"
    /\ batches[b].quality = 100
    /\ pool[b][i].st = "finished"

\* C9: a task whose target is in the JPEG family (target extension .jpg or
\* .jpeg, forced or inferred) hands img.save an image that is neither RGBA nor P.
C9_JpegGetsOpaqueRgb ==
  \A b \in Batches : \A i \in Tasks(b) :
    (IsSome(pool[b][i].save_kwargs) /\ Val(pool[b][i].target_ext) \in {".jpg", ".jpeg"})
      => Val(pool[b][i].img).mode \notin {"RGBA", "P"}

\* Whether an entry holds a number (it is not blank).
Given(text) == Strip(text) # ""

\* A task that has written its output.
Wrote(b, i) == IsSome(pool[b][i].after_size)

\* The source file of a task.
Source(b, i) == disk[batches[b].files[i].path]

\* C10 as stated: in Custom mode with an axis given the output has the
\* requested length on every axis that is given and the source length on the
\* other; in Original mode it has the source dimensions.
C10_CustomResizeAsGiven ==
  \A b \in Batches : \A i \in Tasks(b) :
    Wrote(b, i) =>
      LET img == Val(pool[b][i].img)
          custom == resize_var # "Original" /\ (Given(width_input) \/ Given(height_input))
      IN /\ img.w = IF custom /\ Given(width_input)
                      THEN PyInt(width_input).val ELSE Source(b, i).w
         /\ img.h = IF custom /\ Given(height_input)
                      THEN PyInt(height_input).val ELSE Source(b, i).h

\* C10 amended: an axis given as 0 counts as not given.
C10_CustomResizeNonzero ==
  \A b \in Batches : \A i \in Tasks(b) :
    Wrote(b, i) =>
      LET img == Val(pool[b][i].img)
          w == Given(width_input) /\ PyInt(width_input).val # 0
          h == Given(height_input) /\ PyInt(height_input).val # 0
          custom == resize_var # "Original" /\ (w \/ h)
      IN /\ img.w = IF custom /\ w THEN PyInt(width_input).val ELSE Source(b, i).w
         /\ img.h = IF custom /\ h THEN PyInt(height_input).val ELSE Source(b, i).h
         /\ img.w > 0 /\ img.h > 0

\* C10 witness: width 100 and no height on the 200x300 source gave 100x300.
C10_Witness ==
  \E b \in Batches : \E i \in Tasks(b) :
    /\ Wrote(b, i)
    /\ resize_var = "Custom Size" /\ width_input = "100" /\ height_input = ""
    /\ Source(b, i).w = 200 /\ Source(b, i).h = 300
    /\ Val(pool[b][i].img).w = 100 /\ Val(pool[b][i].img).h = 300
    /\ fs[Val(pool[b][i].save_path)].w = 100 /\ fs[Val(pool[b][i].save_path)].h = 300

\* poll_queue takes a message from msg_q in this step.
Takes == mainpc = "polling" /\ msg_q # <<>> /\ msg_q' = Tail(msg_q)

\* C11: every result poll_queue takes from msg_q is applied: a row of the
\* result's input path shows Done, or Error with the message, and the progress
\* value grows by exactly one.
C11_EveryDrainedResultApplied ==
  [][(Takes /\ Head(msg_q).control = None) =>
       LET msg == Head(msg_q)
       IN /\ progress'.value = progress.value + 1
          /\ \E k \in 1..Len(tree') :
               /\ tree'[k].path = Val(msg.inp_path)
               /\ tree'[k].status = IF msg.status = Some("done") THEN "Done"
                                    ELSE "Error: " \o Val(msg.error)]_vars

\* C12: the all_done message of a batch is put once, after every task of the
\* batch has put its result, so in msg_q no result of a batch is behind the
\* batch's all_done.
C12_AllDoneBehindResults ==
  /\ \A b \in Batches :
       /\ CopiesIn(AllDone(b), sent) <= 1
       /\ CopiesIn(AllDone(b), sent) = 1 => \A t \in TaskIds(b) : ResultsOf(b, t) # {}
       /\ CopiesIn(AllDone(b), sent) = 1 <=> batches[b].pc = "done"
  /\ \A p \in 1..Len(msg_q) : \A q \in (p + 1)..Len(msg_q) :
       msg_q[p].control = Some("all_done") => msg_q[q].batch # msg_q[p].batch

\* C12 witness: the queue holds the results of a batch of at least two tasks
\* and, last, the batch's all_done.
C12_Witness ==
  \E b \in Batches :
    /\ Len(pool[b]) >= 2
    /\ Len(msg_q) = Len(pool[b]) + 1
    /\ msg_q[Len(msg_q)] = AllDone(b)
    /\ \A p \in 1..Len(pool[b]) : msg_q[p].batch = b /\ msg_q[p].control = None

\* A step of a worker or of a worker_submit thread: a task or a thread moves,
\* a file is written or a message is put, and no batch is started.
WorkerStep ==
  /\ Len(batches') = Len(batches)
  /\ (pool' # pool \/ batches' # batches \/ fs' # fs \/ Len(msg_q') > Len(msg_q))

\* C13: a step of a worker changes neither the tree rows, the progress value
\* and maximum, thumb_refs nor size_label, and of the state it shares with the
\* main thread only msg_q; the presentation state changes only in steps of
\* the main thread (a GUI handler or poll_queue).
C13_WorkersLeavePresentationAlone ==
  [][/\ WorkerStep => UNCHANGED <<tree, thumb_refs, nextItem, progress, size_label,
                                   pollTimers, mainpc, clicks>>
     /\ (<<tree, thumb_refs, progress, size_label>>' # <<tree, thumb_refs, progress, size_label>>)
          => (clicks' # clicks \/ mainpc = "polling")]_vars

\* C13 witness: a worker has written a file and put its result while the row
\* of its task still shows Queued and the progress value is 0.
C13_Witness ==
  \E b \in Batches : \E i \in Tasks(b) :
    /\ pool[b][i].st = "finished"
    /\ Wrote(b, i)
    /\ msg_q # <<>>
    /\ progress.value = 0
    /\ \E k \in 1..Len(tree) :
         tree[k].item = batches[b].files[i].item /\ tree[k].status = "Queued"

\* The tasks of an executor, given as its row p of pool, that are claimed by a
\* worker and have not ended.
Executing(p) == {i \in 1..Len(p) : p[i].st \in {"named", "saved"}}

\* Task i of the executor with row p before and q after the step is claimed
\* by a worker in this step.
Claimed(p, q, i) == p[i].st = "queued" /\ q[i].st # "queued"

\* C14: a task is claimed by a worker once and never again, the task claimed
\* is the oldest one submitted and not yet claimed, one task is claimed at a
\* time, and at most WORKER_THREADS tasks of an executor are in execution.
C14_ClaimedOnceInOrderWithinPool ==
  [][\A b \in Batches :
       /\ Cardinality(Executing(pool'[b])) <= WORKER_THREADS
       /\ \A i \in Tasks(b) :
            /\ Claimed(pool[b], pool'[b], i) =>
                 /\ \A j \in 1..(i - 1) : pool[b][j].st \in {"named", "saved", "finished"}
                 /\ \A j \in Tasks(b) \ {i} : ~Claimed(pool[b], pool'[b], j)
            /\ pool[b][i].st \in {"named", "saved", "finished"}
                 => pool'[b][i].st \in {"named", "saved", "finished"}]_vars

\* C14 witness: WORKER_THREADS tasks are in execution and a fifth, submitted,
\* waits for a worker.
C14_Witness ==
  \E b \in Batches :
    /\ Cardinality(Executing(pool[b])) = WORKER_THREADS
    /\ \E i \in Tasks(b) : pool[b][i].st = "queued"

\* C15: a task that wrote its output and whose thumbnail could not be made
\* has put a done result with its output path and both sizes and the
\* placeholder bitmap of THUMBNAIL_SIZE; where the thumbnail could be made the
\* result carries a preview that fits THUMBNAIL_SIZE.
C15_ThumbnailFailureKeepsDone ==
  \A b \in Batches : \A i \in Tasks(b) :
    (pool[b][i].st = "finished" /\ Wrote(b, i)) =>
      LET f == batches[b].files[i]
          rs == ResultsOf(b, f.idx)
      IN /\ rs # {}
         /\ \A m \in rs :
              /\ m.status = Some("done")
              /\ m.error = None
              /\ m.out_path = pool[b][i].save_path
              /\ m.before_size = Some(disk[f.path].size)
              /\ m.after_size = pool[b][i].after_size
              /\ IF f.path \in thumb_faults
                   THEN m.thumb = Some([kind |-> "placeholder", size |-> THUMBNAIL_SIZE])
                   ELSE /\ Val(m.thumb).kind = "preview"
                        /\ Val(m.thumb).size[1] <= THUMBNAIL_SIZE[1]
                        /\ Val(m.thumb).size[2] <= THUMBNAIL_SIZE[2]

\* C15 witness: the task of a file whose output does not re-open has ended
\* after writing its output.
C15_Witness ==
  \E b \in Batches : \E i \in Tasks(b) :
    /\ batches[b].files[i].path \in thumb_faults
    /\ pool[b][i].st = "finished"
    /\ Wrote(b, i)

\* C16: every result message put on msg_q has a task id, its input path and a
\* status of done or error; it has an output path, a before-size and an
\* after-size exactly when the status is done, and an error message exactly
\* when the status is error.
C16_ResultsWellFormed ==
  \A m \in BagToSet(sent) :
    m.control = None =>
      /\ m.status \in {Some("done"), Some("error")}
      /\ IsSome(m.task_id) /\ IsSome(m.inp_path)
      /\ IsSome(m.out_path) <=> m.status = Some("done")
      /\ IsSome(m.before_size) <=> m.status = Some("done")
      /\ IsSome(m.after_size) <=> m.status = Some("done")
      /\ IsSome(m.error) <=> m.status = Some("error")

\* C16 witness: a done result and an error result have been put.
C16_Witness ==
  /\ \E m \in BagToSet(sent) : m.status = Some("done") /\ IsSome(m.out_path)
  /\ \E m \in BagToSet(sent) : m.status = Some("error") /\ IsSome(m.error)

\* Every task of every batch.
AllTasks == UNION {{<<b, i>> : i \in Tasks(b)} : b \in Batches}

\* No two tasks ever stood between ensure_unique_path and img.save at once.
Sequential == \A bi \in AllTasks : pool[bi[1]][bi[2]].solo

\* The tasks that wrote an output and asked ensure_unique_path for want.
WritersOf(want) ==
  {bi \in AllTasks : Wrote(bi[1], bi[2]) /\ DesiredPath(bi[1], bi[2]) = want}

\* C17: when tasks name and write their outputs one at a time, the K tasks
\* that wrote an output of the same desired path name.ext into an empty
\* directory wrote K distinct files, each among name.ext, name_1.ext, ...,
\* name_(K-1).ext, and every one of these files is in the directory.
C17_SequentialNamesDistinct ==
  Sequential =>
    \A bi \in AllTasks :
      Wrote(bi[1], bi[2]) =>
        LET want == DesiredPath(bi[1], bi[2])
            same == WritersOf(want)
            got == Val(pool[bi[1]][bi[2]].save_path)
        IN /\ got \in {want} \cup {Candidate(want, k) : k \in 1..(Cardinality(same) - 1)}
           /\ got \in DOMAIN fs
           /\ \A cj \in same \ {bi} : Val(pool[cj[1]][cj[2]].save_path) # got

\* C17 witness: two inputs named photo.jpg were written one after the other,
\* as out/photo.jpg and out/photo_1.jpg.
C17_Witness ==
  /\ Sequential
  /\ \E bi \in AllTasks : \E cj \in AllTasks \ {bi} :
       /\ Wrote(bi[1], bi[2]) /\ Wrote(cj[1], cj[2])
       /\ DesiredPath(bi[1], bi[2]) = DesiredPath(cj[1], cj[2])
       /\ pool[bi[1]][bi[2]].save_path = Some(DesiredPath(bi[1], bi[2]))
       /\ pool[cj[1]][cj[2]].save_path = Some(Candidate(DesiredPath(bi[1], bi[2]), 1))
       /\ {DesiredPath(bi[1], bi[2]), Candidate(DesiredPath(bi[1], bi[2]), 1)}
            \subseteq DOMAIN fs

\* The worker_submit threads that have not ended.
LiveThreads == {b \in Batches : batches[b].pc # "done"}

\* The poll_queue timer chains: the callbacks pending and the one running.
PollChains == pollTimers + (IF mainpc = "polling" THEN 1 ELSE 0)

\* C18: at most one worker_submit thread is alive and at most one poll_queue
\* timer chain is scheduled at any time, and start_compression resets the
\* progress bar only when the all_done message of every earlier batch has
\* been consumed.
C18_OneBatchInFlight ==
  /\ Cardinality(LiveThreads) <= 1
  /\ PollChains <= 1
  /\ \A b \in Batches : b < Len(batches) => obs[b].all_done >= 1

\* poll_queue ends without rescheduling itself in this step.
PollingStops == mainpc = "polling" /\ mainpc' = "idle" /\ pollTimers' = pollTimers

\* C19: when poll_queue stops rescheduling itself, msg_q is empty and every
\* message of every batch started so far, its all_done included, has been
\* taken from the queue; and a message taken from the queue belongs to the
\* latest batch.
C19_QueueDrainedWhenPollingStops ==
  [][/\ PollingStops =>
          /\ msg_q = <<>>
          /\ \A b \in Batches :
               /\ obs[b].all_done = 1
               /\ obs[b].applied \cup obs[b].discarded = TaskIds(b)
     /\ Takes => Head(msg_q).batch = Len(batches)]_vars

\* C20: no two rows of the file list hold the same input path (nor the same
\* item), the input paths of a batch are pairwise distinct, and for every
\* result in msg_q whose task's row is still in the list the lookup by path
\* finds that row.
C20_NoDuplicateRows ==
  /\ \A k \in 1..Len(tree) : \A j \in 1..Len(tree) :
       k # j => (tree[k].path # tree[j].path /\ tree[k].item # tree[j].item)
  /\ \A b \in Batches : \A i \in Tasks(b) : \A j \in Tasks(b) :
       i # j => batches[b].files[i].path # batches[b].files[j].path
  /\ \A p \in 1..Len(msg_q) :
       msg_q[p].control = None =>
         LET f == batches[msg_q[p].batch].files[Val(msg_q[p].task_id) + 1]
         IN /\ f.path = Val(msg_q[p].inp_path)
            /\ \A k \in 1..Len(tree) :
                 tree[k].item = f.item => FindRow(tree, Val(msg_q[p].inp_path)) = k

\* C20 witness: after two events on the file list it holds three rows, and a
\* batch of the three has had each result applied to a row.
C20_Witness ==
  /\ clicks >= 3
  /\ Len(tree) = 3 /\ nextItem = 4
  /\ \E b \in Batches :
       /\ Len(pool[b]) = 3
       /\ obs[b].applied = TaskIds(b)
       /\ \A k \in 1..Len(tree) : tree[k].status # "Queued"

====
